---- MODULE Spec2Model ----
(***************************************************************************)
(* Model of the two dictionary browsers of the repository.                 *)
(*                                                                         *)
(*   list variant  src/script.js          state.words / nl_words_local     *)
(*   card variant  src/unnamed/part_000   allWords / favWords              *)
(*                                                                         *)
(* JavaScript strings that the code inspects character by character are    *)
(* tuples of one-character strings; part-of-speech and rarity values, which *)
(* are only compared with ===, are atoms.  The JavaScript value undefined   *)
(* is Undefined (atoms), NoStr (character strings) and NoId (ids).          *)
(***************************************************************************)
EXTENDS Naturals, Integers, Sequences, FiniteSets, TLC

(* ------------------------------ bounds -------------------------------- *)

\* local ids uniqueId() can return
MaxLocalIds == 1
\* addOrUpdateEntry does not add when state.words already has this many entries
MaxWords == 4
\* handlers that run in one behaviour (page loads included)
MaxSteps == 8
\* RESULTS_PAGE_SIZE of script.js (30 there), scaled so that a second page exists
RESULTS_PAGE_SIZE == 2

\* page indexes tried on renderResultsPage
MaxPage == 3

(* --------------------------- JavaScript values ------------------------ *)

Undefined == "<undefined>"
NoStr == <<Undefined>>
NoId == <<"<undefined>", 0>>
\* String(undefined), what a DOMStringMap stores for undefined
StrUndefinedId == <<"undefined", 0>>
StrUndefined == <<"u", "n", "d", "e", "f", "i", "n", "e", "d">>

Range(s) == {s[i] : i \in DOMAIN s}

\* Boolean(v) of a string / of an id / of an atom
TruthyStr(s) == s # NoStr /\ s # <<>>
TruthyId(i) == i # NoId
TruthyAtom(a) == a # Undefined /\ a # ""

LowerChar(c) ==
  CASE c = "A" -> "a"
    [] c = "B" -> "b"
    [] c = "Z" -> "z"
    [] OTHER -> c

ToLowerCase(s) == [i \in DOMAIN s |-> LowerChar(s[i])]

RECURSIVE TrimStart(_)
TrimStart(s) == IF s # <<>> /\ Head(s) = " " THEN TrimStart(Tail(s)) ELSE s

RECURSIVE TrimEnd(_)
TrimEnd(s) ==
  IF s # <<>> /\ s[Len(s)] = " " THEN TrimEnd(SubSeq(s, 1, Len(s) - 1)) ELSE s

Trim(s) == TrimEnd(TrimStart(s))

Includes(f, q) ==
  \E i \in 0..(Len(f) - Len(q)) : SubSeq(f, i + 1, i + Len(q)) = q

RECURSIVE SelectSeqBy(_, _)
\* Array.prototype.filter with the set `keep` of kept indices
SelectSeqBy(s, keep) ==
  IF s = <<>> THEN <<>>
  ELSE LET n == Len(s)
           front == SelectSeqBy(SubSeq(s, 1, n - 1), keep)
       IN IF n \in keep THEN Append(front, s[n]) ELSE front

\* the first index of s whose element has this id, 0 when there is none
\* (findIndex gives -1, find gives undefined)
FindIndexById(s, id) ==
  IF \E i \in DOMAIN s : s[i].id = id
  THEN CHOOSE i \in DOMAIN s : s[i].id = id /\ \A j \in 1..(i - 1) : s[j].id # id
  ELSE 0

(* ======================================================================= *)
(*                      list variant: src/script.js                        *)
(* ======================================================================= *)

VARIABLES
  phase,            \* "boot" until init() has installed the listeners
  serverFile,       \* what Data/words.json holds on the server
  storage,          \* localStorage item 'nl_words_local'
  originalWords,    \* state.originalWords
  words,            \* state.words
  sameArray,        \* state.words and state.originalWords are one Array object
  results,          \* state.results
  query,            \* state.query
  filterPos,        \* state.filterPos
  listItems,        \* the entries of the <li> items in #results-list
  loadMoreDisplay,  \* loadMoreWrap.style.display is 'block'
  resultCount,      \* what resultCount.textContent reports
  page,             \* state.page
  selectedId,       \* state.selectedId
  detail,           \* entry captured by the Edit/Delete buttons of #word-detail
  modalOpen,        \* #add-entry-modal is shown
  editId,           \* addEntryForm.dataset.editId
  searchInputValue, \* searchInput.value
  timers,           \* the debounce timeouts set and neither cleared nor fired
  escaped,          \* the last handler ended by an uncaught exception
  last,             \* the last handler that ran, with its argument
  tombstones,       \* ids of remote entries removed by deleteEntry (history)
  steps             \* handlers run so far (history)

listVars ==
  <<phase, serverFile, storage, originalWords, words, sameArray, results, query,
    filterPos, page, listItems, loadMoreDisplay, resultCount, selectedId, detail,
    modalOpen, editId, searchInputValue, timers, escaped, last, tombstones,
    steps>>

\* the card page (src/unnamed/part_000)
VARIABLES
  cardPhase,      \* "loading" until loadData() has returned
  cardFile,       \* what data/words.json holds on the server
  allWords,       \* allWords
  visibleWords,   \* visibleWords
  favorites,      \* favorites (a Set of words)
  favStorage,     \* localStorage item 'favWords'
  cardSearch,     \* searchInput.value
  rarityChecked,  \* values of the checked .rarity checkboxes
  onlyFavChecked, \* onlyFav.checked
  container,      \* entries whose cards are in #wordContainer, in order
  renders,        \* the renderList calls suspended on an icon fetch
  alphaBuilt,     \* buildAlphaIndex has filled #alphaIndex
  cardEscaped,    \* the last handler ended by an uncaught exception
  cardLast,       \* the last handler that ran
  cardSteps       \* handlers run so far (history)

cardVars ==
  <<cardPhase, cardFile, allWords, visibleWords, favorites, favStorage, cardSearch,
    rarityChecked, onlyFavChecked, container, renders, alphaBuilt, cardEscaped,
    cardLast, cardSteps>>

vars == <<listVars, cardVars>>

(* ------------------------------ inputs -------------------------------- *)

LocalIds == {<<"w", n>> : n \in 1..MaxLocalIds}

\* entries of the served word list; the second and third carry no id field
RemoteA ==
  [id |-> <<"r", 1>>, word |-> <<"a", "m">>, orthography |-> NoStr,
   pos |-> "noun", definition |-> <<"z">>, examples |-> <<>>]
RemoteB ==
  [id |-> NoId, word |-> <<"B", "i">>, orthography |-> NoStr,
   pos |-> Undefined, definition |-> NoStr, examples |-> <<>>]
RemoteC ==
  [id |-> NoId, word |-> <<"a", "b">>, orthography |-> NoStr,
   pos |-> "verb", definition |-> <<"a", " ", "z">>, examples |-> <<>>]

NotAnArray == [isArray |-> FALSE, items |-> <<>>]
JsonArray(items) == [isArray |-> TRUE, items |-> items]

ServerFiles ==
  {JsonArray(<<RemoteA, RemoteB, RemoteC>>), NotAnArray}

\* what the user types into the search box and picks in #filter-pos
QueryValues == {<<>>, <<"a">>, <<" ">>}
FilterValues == {"", "noun"}

\* what the user submits in the add/edit form
FormWords == {<<"Z">>, <<" ", "a", "m">>}
FormPos == {""}
FormDefinitions == {<<"z", " ">>}

(* ------------------------ loading and persistence ---------------------- *)

NullItem == [kind |-> "null", items |-> <<>>]
\* a stored text that is no JSON array (unparsable, or another JSON value)
OtherItem == [kind |-> "other", items |-> <<>>]

JSONStringify(list) == [kind |-> "array", items |-> list]

loadLocalChanges(item) == IF item.kind = "array" THEN item.items ELSE <<>>

\* fetchWords: the parsed body, or [] when the fetch or the status failed
fetchWords(outcome) == IF outcome = "ok" THEN serverFile ELSE JsonArray(<<>>)

InitOriginalWords(remoteWords) ==
  IF remoteWords.isArray THEN remoteWords.items ELSE <<>>

\* a merge that leaves the stored list out
InitWordsDropsLocal(original, localWords) == original

InitWords(original, localWords) == original \o localWords

\* state.words = state.originalWords, one array under two names
InitSharesArrayAliased == TRUE

\* [...a, ...b] builds a new array
InitSharesArray == FALSE

(* ------------------------------ search -------------------------------- *)

normalize(s) == IF s = NoStr THEN StrUndefined ELSE ToLowerCase(s)

EntryFields(entry) ==
  {f \in {entry.word, entry.orthography, entry.definition} : TruthyStr(f)}
    \cup {x \in Range(entry.examples) : TruthyStr(x)}

matchesEntry(entry, q, posFilter) ==
  IF ~TruthyStr(q) /\ ~TruthyAtom(posFilter) THEN TRUE
  ELSE IF TruthyAtom(posFilter) /\ TruthyAtom(entry.pos) /\ entry.pos # posFilter
       THEN FALSE
  ELSE IF normalize(q) = <<>> THEN TRUE
  ELSE \E f \in EntryFields(entry) : Includes(normalize(f), normalize(q))

\* state.words.filter(e => matchesEntry(e, q, posFilter))
SearchResults(ws, q, posFilter) ==
  SelectSeqBy(ws, {i \in DOMAIN ws : matchesEntry(ws[i], q, posFilter)})

Min(a, b) == IF a < b THEN a ELSE b

\* the <li> items renderResultsPage leaves in #results-list
PageSlice(rs, p) ==
  SubSeq(rs, p * RESULTS_PAGE_SIZE + 1, Min(Len(rs), (p + 1) * RESULTS_PAGE_SIZE))

Rendered == PageSlice(results, page)

\* the button also shown when the next page starts exactly at the end
LoadMoreShownInclusive(rs, p) ==
  PageSlice(rs, p) # <<>> /\ (p + 1) * RESULTS_PAGE_SIZE <= Len(rs)

\* loadMoreWrap.style.display = 'block'
LoadMoreShown(rs, p) ==
  PageSlice(rs, p) # <<>> /\ (p + 1) * RESULTS_PAGE_SIZE < Len(rs)

(* ---------------------- the handlers of script.js ---------------------- *)

\* one more handler of the list page runs
Step == steps < MaxSteps /\ steps' = steps + 1 /\ UNCHANGED cardVars

Op(name, entrySeq, ok) == [op |-> name, entry |-> entrySeq, ok |-> ok]

\* what reading / assigning addEntryForm.dataset.editId gives
DatasetString(id) == IF id = NoId THEN StrUndefinedId ELSE id

IdsInUse ==
  {w.id : w \in Range(words) \cup Range(originalWords) \cup Range(loadLocalChanges(storage))
            \cup Range(detail)}
    \cup {editId, selectedId}

\* uniqueId(): a random id, taken here not to collide with an id in use
uniqueId == LocalIds \ IdsInUse

\* renderResultsPage, for state.results rs and state.page p
RenderResultsPage(rs, p) ==
  /\ listItems' = PageSlice(rs, p)
  /\ loadMoreDisplay' = LoadMoreShown(rs, p)

\* the text updateResultCount writes: the number n and which sentence carries it
updateResultCount(rs, ws, q, pf) ==
  LET n == IF Len(rs) # 0 THEN Len(rs) ELSE Len(ws)
  IN IF TruthyStr(q) \/ TruthyAtom(pf)
     THEN [n |-> n, text |-> "results"]
     ELSE [n |-> Len(ws), text |-> "total entries"]

\* applySearch without the return to the first page
ApplySearchKeepsPage(ws, q, pf) ==
  /\ page' = page
  /\ results' = SearchResults(ws, q, pf)
  /\ RenderResultsPage(SearchResults(ws, q, pf), page)
  /\ resultCount' = updateResultCount(SearchResults(ws, q, pf), ws, q, pf)

\* applySearch, for the collection ws, state.query q and state.filterPos pf
ApplySearch(ws, q, pf) ==
  /\ page' = 0
  /\ results' = SearchResults(ws, q, pf)
  /\ RenderResultsPage(SearchResults(ws, q, pf), 0)
  /\ resultCount' = updateResultCount(SearchResults(ws, q, pf), ws, q, pf)

\* selectEntry(id) on the collection ws
SelectEntry(ws, id) ==
  LET idx == FindIndexById(ws, id)
  IN IF idx = 0
     THEN UNCHANGED <<selectedId, detail>>
     ELSE selectedId' = id /\ detail' = <<ws[idx]>>

ListInit ==
  /\ phase = "boot"
  /\ serverFile \in ServerFiles
  /\ storage \in {NullItem, OtherItem}
  /\ originalWords = <<>>
  /\ words = <<>>
  /\ sameArray = FALSE
  /\ results = <<>>
  /\ query = <<>>
  /\ filterPos = ""
  /\ page = 0
  /\ listItems = <<>>
  /\ loadMoreDisplay = FALSE
  /\ resultCount = [n |-> 0, text |-> "loading"]
  /\ selectedId = NoId
  /\ detail = <<>>
  /\ modalOpen = FALSE
  /\ editId = NoId
  /\ searchInputValue = <<>>
  /\ timers = 0
  /\ escaped = FALSE
  /\ last = Op("none", <<>>, FALSE)
  /\ tombstones = {}
  /\ steps = 0

\* init(): fetch, merge with the stored list, install the listeners, first search
InitApp ==
  /\ phase = "boot"
  /\ Step
  /\ \E outcome \in {"ok", "failed"} :
       LET remoteWords == fetchWords(outcome)
           localWords == loadLocalChanges(storage)
           original == InitOriginalWords(remoteWords)
       IN /\ originalWords' = original
          /\ words' = InitWords(original, localWords)
          /\ sameArray' = InitSharesArray
          /\ last' = Op("init", <<>>, outcome = "ok" /\ remoteWords.isArray)
          /\ UNCHANGED <<query, filterPos>>
          /\ ApplySearch(InitWords(original, localWords), query, filterPos)
  /\ phase' = "ready"
  /\ escaped' = FALSE
  /\ UNCHANGED <<serverFile, storage, selectedId, detail, modalOpen, editId,
                 searchInputValue, timers, tombstones>>

\* the page is loaded again: the script state starts over, localStorage stays
Reload ==
  /\ phase = "ready"
  /\ Step
  /\ phase' = "boot"
  /\ originalWords' = <<>>
  /\ words' = <<>>
  /\ sameArray' = FALSE
  /\ results' = <<>>
  /\ query' = <<>>
  /\ filterPos' = ""
  /\ page' = 0
  /\ listItems' = <<>>
  /\ loadMoreDisplay' = FALSE
  /\ resultCount' = [n |-> 0, text |-> "loading"]
  /\ selectedId' = NoId
  /\ detail' = <<>>
  /\ modalOpen' = FALSE
  /\ editId' = NoId
  /\ searchInputValue' = <<>>
  /\ timers' = 0
  /\ escaped' = FALSE
  /\ last' = Op("reload", <<>>, TRUE)
  /\ UNCHANGED <<serverFile, storage, tombstones>>

\* a debounce that leaves the earlier timeout running
clearTimeoutSkipped(n) == n

\* clearTimeout(t): the timeout debounce set last is cancelled if it is still set
clearTimeout(n) == IF n > 0 THEN n - 1 ELSE 0

\* searchInput 'input': the debounced handler re-arms its timer
TypeInput ==
  /\ phase = "ready"
  /\ Step
  /\ \E v \in QueryValues : searchInputValue' = v
  /\ timers' = clearTimeout(timers) + 1
  /\ escaped' = FALSE
  /\ last' = Op("view", <<>>, TRUE)
  /\ UNCHANGED <<phase, serverFile, storage, originalWords, words, sameArray, results, listItems, loadMoreDisplay, resultCount,
                 query, filterPos, page, selectedId, detail, modalOpen, editId,
                 tombstones>>

\* the debounce timeout fires: state.query = e.target.value; applySearch()
DebouncedSearch ==
  /\ phase = "ready"
  /\ timers > 0
  /\ timers' = timers - 1
  /\ query' = searchInputValue
  /\ UNCHANGED filterPos
  /\ ApplySearch(words, searchInputValue, filterPos)
  /\ escaped' = FALSE
  /\ last' = Op("search", <<>>, TRUE)
  /\ UNCHANGED <<phase, serverFile, storage, originalWords, words, sameArray,
                 selectedId, detail, modalOpen, editId, searchInputValue, tombstones>>

\* the timeout fires as one of the handlers counted by steps
TimerFire == Step /\ DebouncedSearch

\* the timeout fires, whatever the number of handlers run so far
TimerExpires == DebouncedSearch /\ UNCHANGED <<steps, cardVars>>

\* filterSelect 'change'
FilterChange ==
  /\ phase = "ready"
  /\ Step
  /\ \E p \in FilterValues : filterPos' = p /\ ApplySearch(words, query, p)
  /\ UNCHANGED query
  /\ escaped' = FALSE
  /\ last' = Op("filter", <<>>, TRUE)
  /\ UNCHANGED <<phase, serverFile, storage, originalWords, words, sameArray,
                 selectedId, detail, modalOpen, editId, searchInputValue, timers,
                 tombstones>>

\* clearBtn 'click'
ClearClick ==
  /\ phase = "ready"
  /\ Step
  /\ searchInputValue' = <<>>
  /\ query' = <<>>
  /\ filterPos' = ""
  /\ ApplySearch(words, <<>>, "")
  /\ escaped' = FALSE
  /\ last' = Op("filter", <<>>, TRUE)
  /\ UNCHANGED <<phase, serverFile, storage, originalWords, words, sameArray,
                 selectedId, detail, modalOpen, editId, timers, tombstones>>

\* loadMoreBtn 'click', possible while the button is displayed
LoadMore ==
  /\ phase = "ready"
  /\ Step
  /\ loadMoreDisplay
  /\ page' = page + 1
  /\ RenderResultsPage(results, page + 1)
  /\ escaped' = FALSE
  /\ last' = Op("view", <<>>, TRUE)
  /\ UNCHANGED <<phase, serverFile, storage, originalWords, words, sameArray, results,
                 resultCount, query, filterPos, selectedId, detail, modalOpen, editId,
                 searchInputValue, timers, tombstones>>

\* click (or Enter) on the i-th rendered <li>: selectEntry(entry.id)
ClickItem ==
  /\ phase = "ready"
  /\ Step
  /\ \E i \in DOMAIN listItems :
       /\ SelectEntry(words, listItems[i].id)
       /\ last' = Op("select", <<listItems[i]>>, FindIndexById(words, listItems[i].id) # 0)
  /\ escaped' = FALSE
  /\ UNCHANGED <<phase, serverFile, storage, originalWords, words, sameArray, results, listItems, loadMoreDisplay, resultCount,
                 query, filterPos, page, modalOpen, editId, searchInputValue,
                 timers, tombstones>>

\* addEntryBtn 'click': openAddModalBlank
OpenAddBlank ==
  /\ phase = "ready"
  /\ Step
  /\ modalOpen' = TRUE
  /\ editId' = NoId
  /\ escaped' = FALSE
  /\ last' = Op("view", <<>>, TRUE)
  /\ UNCHANGED <<phase, serverFile, storage, originalWords, words, sameArray, results, listItems, loadMoreDisplay, resultCount,
                 query, filterPos, page, selectedId, detail, searchInputValue,
                 timers, tombstones>>

\* #edit-entry-btn 'click': openAddModalForEdit(entry)
ClickEdit ==
  /\ phase = "ready"
  /\ Step
  /\ detail # <<>>
  /\ modalOpen' = TRUE
  /\ editId' = DatasetString(detail[1].id)
  /\ escaped' = FALSE
  /\ last' = Op("openEdit", <<>>, TRUE)
  /\ UNCHANGED <<phase, serverFile, storage, originalWords, words, sameArray, results, listItems, loadMoreDisplay, resultCount,
                 query, filterPos, page, selectedId, detail, searchInputValue,
                 timers, tombstones>>

\* cancelAddBtn 'click': closeAddModal
CancelAdd ==
  /\ phase = "ready"
  /\ Step
  /\ modalOpen
  /\ modalOpen' = FALSE
  /\ editId' = NoId
  /\ escaped' = FALSE
  /\ last' = Op("view", <<>>, TRUE)
  /\ UNCHANGED <<phase, serverFile, storage, originalWords, words, sameArray, results, listItems, loadMoreDisplay, resultCount,
                 query, filterPos, page, selectedId, detail, searchInputValue,
                 timers, tombstones>>

\* the entry addOrUpdateEntry builds from the form data
NewEntry(id, w, p, d) ==
  [id |-> id, word |-> Trim(w), orthography |-> <<>>,
   pos |-> IF TruthyAtom(p) THEN p ELSE "other", definition |-> Trim(d),
   examples |-> <<>>]

\* state.words after addOrUpdateEntry: replaced in place when editing, else pushed
UpsertWords(ws, eid, newEntry) ==
  IF TruthyId(eid)
  THEN LET idxOriginal == FindIndexById(ws, eid)
       IN IF idxOriginal # 0 THEN [ws EXCEPT ![idxOriginal] = newEntry] ELSE ws
  ELSE Append(ws, newEntry)

\* the list addOrUpdateEntry hands to saveLocalChanges
UpsertLocal(local, eid, newEntry) ==
  IF TruthyId(eid)
  THEN Append(SelectSeqBy(local, {i \in DOMAIN local : local[i].id # eid}), newEntry)
  ELSE Append(local, newEntry)

\* addEntryForm 'submit': addOrUpdateEntry(data); setItem may throw
SubmitForm ==
  /\ phase = "ready"
  /\ Step
  /\ modalOpen
  /\ TruthyId(editId) \/ Len(words) < MaxWords
  /\ \E w \in FormWords, p \in FormPos, d \in FormDefinitions, throws \in BOOLEAN :
     \E id \in IF TruthyId(editId) THEN {editId} ELSE uniqueId :
       LET newEntry == NewEntry(id, w, p, d)
           ws == UpsertWords(words, editId, newEntry)
           local == UpsertLocal(loadLocalChanges(storage), editId, newEntry)
       IN /\ words' = ws
          /\ originalWords' = IF sameArray THEN ws ELSE originalWords
          /\ last' = Op("submit", <<newEntry>>, ~throws)
          /\ escaped' = throws
          /\ IF throws
             THEN UNCHANGED <<storage, modalOpen, editId, results, listItems, loadMoreDisplay, resultCount, page, selectedId,
                              detail, tombstones>>
             ELSE /\ storage' = JSONStringify(local)
                  /\ modalOpen' = FALSE
                  /\ editId' = NoId
                  /\ ApplySearch(ws, query, filterPos)
                  /\ SelectEntry(ws, newEntry.id)
                  /\ tombstones' = tombstones \ {newEntry.id}
  /\ UNCHANGED <<phase, serverFile, sameArray, query, filterPos, searchInputValue,
                 timers>>

\* state.words.filter(w => w.id !== id)
DeleteWords(ws, id) == SelectSeqBy(ws, {i \in DOMAIN ws : ws[i].id # id})

\* #delete-entry-btn 'click': deleteEntry(entry.id); setItem may throw
ClickDelete ==
  /\ phase = "ready"
  /\ Step
  /\ detail # <<>>
  /\ \/ \* confirm() answered Cancel
        /\ last' = Op("delete", detail, FALSE)
        /\ escaped' = FALSE
        /\ UNCHANGED <<words, storage, results, listItems, loadMoreDisplay, resultCount, page, detail, tombstones, sameArray>>
     \/ \E throws \in BOOLEAN :
          LET id == detail[1].id
              ws == DeleteWords(words, id)
              local == DeleteWords(loadLocalChanges(storage), id)
          IN /\ words' = ws
             /\ sameArray' = FALSE
             /\ last' = Op("delete", detail, TRUE)
             /\ escaped' = throws
             /\ IF throws
                THEN UNCHANGED <<storage, results, listItems, loadMoreDisplay, resultCount, page, detail, tombstones>>
                ELSE /\ storage' = JSONStringify(local)
                     /\ ApplySearch(ws, query, filterPos)
                     /\ detail' = <<>>
                     /\ tombstones' =
                          IF \E o \in Range(originalWords) : o.id = id
                          THEN tombstones \cup {id} ELSE tombstones
  /\ UNCHANGED <<phase, serverFile, originalWords, query, filterPos, selectedId,
                 modalOpen, editId, searchInputValue, timers>>

\* a reset that keeps the current list
ResetWordsKeepsLocal == words

\* state.words = [...state.originalWords]
ResetWords == originalWords

ResetSharesArray == FALSE

\* resetBtn 'click': resetLocalChanges; removeItem, then setItem('[]') may throw
ResetClick ==
  /\ phase = "ready"
  /\ Step
  /\ \/ \* confirm() answered Cancel
        /\ last' = Op("reset", <<>>, FALSE)
        /\ escaped' = FALSE
        /\ UNCHANGED <<words, storage, results, listItems, loadMoreDisplay, resultCount, page, tombstones, sameArray>>
     \/ \E throws \in BOOLEAN :
          /\ words' = ResetWords
          /\ sameArray' = ResetSharesArray
          /\ last' = Op("reset", <<>>, TRUE)
          /\ escaped' = throws
          /\ tombstones' = {}
          /\ IF throws
             THEN /\ storage' = NullItem
                  /\ UNCHANGED <<results, listItems, loadMoreDisplay, resultCount, page>>
             ELSE /\ storage' = JSONStringify(<<>>)
                  /\ ApplySearch(ResetWords, query, filterPos)
  /\ UNCHANGED <<phase, serverFile, originalWords, query, filterPos, selectedId, detail,
                 modalOpen, editId, searchInputValue, timers>>

(* ======================================================================= *)
(*                  card variant: src/unnamed/part_000                     *)
(* ======================================================================= *)

\* handlers of the card page that run in one behaviour
MaxCardSteps == 5


(* ------------------------------ inputs -------------------------------- *)

RarityValues == {"core", "common", "rare"}

\* the two entries of the tag scenario: no rarity field
Ama ==
  [word |-> <<"A", "m", "a">>, definition |-> <<"l", "o", "v", "e">>, usage |-> NoStr,
   rarity |-> Undefined, tags |-> <<"core">>, icon |-> Undefined]
Biru ==
  [word |-> <<"B", "i", "r", "u">>, definition |-> <<"b", "l", "u", "e">>,
   usage |-> NoStr, rarity |-> Undefined, tags |-> <<"rare">>, icon |-> Undefined]
\* entries that carry a rarity field; the icon of Zu is a file in icons/
AmaLower ==
  [word |-> <<"a", "m", "a">>, definition |-> NoStr, usage |-> <<"A", " ", "b">>,
   rarity |-> "rare", tags |-> <<"Core">>, icon |-> Undefined]
Zu ==
  [word |-> <<"Z", "u">>, definition |-> <<"l", "o">>, usage |-> NoStr,
   rarity |-> "common", tags |-> <<>>, icon |-> "zu.svg"]

ScenarioWords == <<Ama, Biru>>

CardFiles == {JsonArray(ScenarioWords), JsonArray(<<Zu, Ama, AmaLower>>), NotAnArray}

CardSearchValues == {<<>>, <<" ", "A", " ">>, <<"l", "o">>}

(* ------------------------------ loadData ------------------------------ *)

\* allWords.forEach(w => { if(!w.rarity) w.rarity = 'core'; if(!w.word) w.word = ''; })
NormalizeWord(w) ==
  [w EXCEPT !.rarity = IF TruthyAtom(w.rarity) THEN w.rarity ELSE "core",
            !.word = IF TruthyStr(w.word) THEN w.word ELSE <<>>]

NormalizeAll(items) == [i \in DOMAIN items |-> NormalizeWord(items[i])]

(* ------------------------------ filters ------------------------------- *)

\* (s || '') of a string field
OrEmpty(s) == IF TruthyStr(s) THEN s ELSE <<>>

\* (w.rarity || 'core')
RarityOf(w) == IF TruthyAtom(w.rarity) THEN w.rarity ELSE "core"

\* allowedRarity.includes(w.rarity || 'core')
RarityAllowed(w, allowedRarity) == RarityOf(w) \in allowedRarity

\* the predicate with the rarity test negated
CardKeepsRejected(w, q, allowedRarity, onlyFav, favs) ==
  IF onlyFav /\ w.word \notin favs THEN FALSE
  ELSE IF RarityAllowed(w, allowedRarity) THEN FALSE
  ELSE IF q = <<>> THEN TRUE
  ELSE \/ Includes(ToLowerCase(OrEmpty(w.word)), q)
       \/ Includes(ToLowerCase(OrEmpty(w.definition)), q)
       \/ Includes(ToLowerCase(OrEmpty(w.usage)), q)

\* the predicate applyFilters hands to allWords.filter
CardKeeps(w, q, allowedRarity, onlyFav, favs) ==
  IF onlyFav /\ w.word \notin favs THEN FALSE
  ELSE IF ~RarityAllowed(w, allowedRarity) THEN FALSE
  ELSE IF q = <<>> THEN TRUE
  ELSE \/ Includes(ToLowerCase(OrEmpty(w.word)), q)
       \/ Includes(ToLowerCase(OrEmpty(w.definition)), q)
       \/ Includes(ToLowerCase(OrEmpty(w.usage)), q)

\* collation order of the letters used
Letters == <<" ", "a", "b", "e", "i", "l", "m", "o", "r", "u", "v", "z">>

CharRank(c) == CHOOSE i \in DOMAIN Letters : Letters[i] = LowerChar(c)

RECURSIVE PrimaryCompare(_, _)
\* -1, 0, 1: the order of two strings ignoring case
PrimaryCompare(a, b) ==
  IF a = <<>> /\ b = <<>> THEN 0
  ELSE IF a = <<>> THEN -1
  ELSE IF b = <<>> THEN 1
  ELSE IF CharRank(Head(a)) < CharRank(Head(b)) THEN -1
  ELSE IF CharRank(Head(a)) > CharRank(Head(b)) THEN 1
  ELSE PrimaryCompare(Tail(a), Tail(b))

RECURSIVE CaseCompare(_, _)
\* the case level, for strings equal ignoring case: lower case first
CaseCompare(a, b) ==
  IF a = <<>> \/ b = <<>> THEN 0
  ELSE IF Head(a) = Head(b) THEN CaseCompare(Tail(a), Tail(b))
  ELSE IF Head(a) = LowerChar(Head(a)) THEN -1 ELSE 1

\* a.localeCompare(b)
localeCompare(a, b) ==
  IF PrimaryCompare(a, b) # 0 THEN PrimaryCompare(a, b) ELSE CaseCompare(a, b)

RECURSIVE InsertSorted(_, _)
\* x placed behind every element that does not compare greater than it
InsertSorted(sorted, x) ==
  IF sorted = <<>> THEN <<x>>
  ELSE IF localeCompare(OrEmpty(Head(sorted).word), OrEmpty(x.word)) > 0
       THEN <<x>> \o sorted
       ELSE <<Head(sorted)>> \o InsertSorted(Tail(sorted), x)

RECURSIVE SortByWord(_)
\* visibleWords.sort((a,b) => (a.word||'').localeCompare(b.word||'')), a stable sort
SortByWord(s) ==
  IF s = <<>> THEN <<>>
  ELSE InsertSorted(SortByWord(SubSeq(s, 1, Len(s) - 1)), s[Len(s)])

\* the value applyFilters gives visibleWords
FilteredWords(items, searchValue, allowedRarity, onlyFav, favs) ==
  LET q == ToLowerCase(Trim(searchValue))
  IN SortByWord(SelectSeqBy(items,
       {i \in DOMAIN items : CardKeeps(items[i], q, allowedRarity, onlyFav, favs)}))

(* ---------------------- the handlers of the card page ------------------ *)

\* one more handler of the card page runs
CardStep == cardSteps < MaxCardSteps /\ cardSteps' = cardSteps + 1 /\ UNCHANGED listVars

\* `on`: a favorite toggle found the key absent, so it has to be a member after it;
\* `before`: the members of favorites when the toggle started
CardOp(name, key, applied, on, before) ==
  [op |-> name, key |-> key, applied |-> applied, on |-> on, before |-> before]

\* renderWord(w) awaits a fetch: w.icon names a file (no 'svg:' or 'char:' form)
HasIconFile(w) == TruthyAtom(w.icon)

RECURSIVE RenderRun(_, _, _)
\* renderList on ws from index i, as far as it runs before the next event: cards
\* are appended until a word with an icon file is met (`waiting`, 0 at the end)
RenderRun(cont, ws, i) ==
  IF i > Len(ws) THEN [container |-> cont, waiting |-> 0]
  ELSE IF HasIconFile(ws[i]) THEN [container |-> cont, waiting |-> i]
  ELSE RenderRun(Append(cont, ws[i]), ws, i + 1)

\* renderList(ws): the container is emptied, then the words are rendered in turn
RenderList(ws) ==
  LET run == RenderRun(<<>>, ws, 1)
  IN /\ container' = run.container
     /\ renders' = IF run.waiting = 0 THEN renders
                   ELSE Append(renders, [words |-> ws, at |-> run.waiting])

\* applyFilters() with the given control values: allWords.filter throws when
\* allWords is no array
ApplyFilters(searchValue, allowedRarity, onlyFav, favs) ==
  IF allWords.isArray
  THEN /\ visibleWords' =
            FilteredWords(allWords.items, searchValue, allowedRarity, onlyFav, favs)
       /\ RenderList(FilteredWords(allWords.items, searchValue, allowedRarity, onlyFav,
                                   favs))
       /\ cardEscaped' = FALSE
  ELSE /\ UNCHANGED <<visibleWords, container, renders>>
       /\ cardEscaped' = TRUE

UpperChar(c) ==
  CASE c = "a" -> "A"
    [] c = "b" -> "B"
    [] c = "z" -> "Z"
    [] OTHER -> c

\* the letters buildAlphaIndex makes buttons for
AlphaLetters ==
  {<<UpperChar(OrEmpty(w.word)[1])>> : w \in {x \in Range(allWords.items) : TruthyStr(x.word)}}

\* a toggle that never removes a key
ToggleFavoriteAddOnly(favs, key) ==
  IF key \in Range(favs) THEN favs ELSE Append(favs, key)

\* Array.from(favorites) after the click on the card of `key`
ToggleFavorite(favs, key) ==
  IF key \in Range(favs)
  THEN SelectSeqBy(favs, {i \in DOMAIN favs : favs[i] # key})
  ELSE Append(favs, key)

CardInit ==
  /\ cardPhase = "loading"
  /\ cardFile \in CardFiles
  /\ allWords = JsonArray(<<>>)
  /\ visibleWords = <<>>
  /\ favorites = <<>>
  /\ favStorage = NullItem
  /\ cardSearch = <<>>
  /\ rarityChecked \in SUBSET RarityValues
  /\ onlyFavChecked = FALSE
  /\ container = <<>>
  /\ renders = <<>>
  /\ alphaBuilt = FALSE
  /\ cardEscaped = FALSE
  /\ cardLast = CardOp("none", <<>>, FALSE, FALSE, {})
  /\ cardSteps = 0

\* loadData() returns: the catch block shows a message for a failed fetch and for
\* a payload forEach cannot be called on
LoadData ==
  /\ cardPhase = "loading"
  /\ CardStep
  /\ cardPhase' = "ready"
  /\ \E outcome \in {"ok", "failed"} :
       IF outcome = "failed"
       THEN /\ container' = <<>>
            /\ cardLast' = CardOp("loadData", <<>>, FALSE, FALSE, {})
            /\ cardEscaped' = FALSE
            /\ UNCHANGED <<allWords, visibleWords, alphaBuilt, renders>>
       ELSE IF ~cardFile.isArray
       THEN /\ allWords' = cardFile
            /\ container' = <<>>
            /\ cardLast' = CardOp("loadData", <<>>, FALSE, FALSE, {})
            /\ cardEscaped' = FALSE
            /\ UNCHANGED <<visibleWords, alphaBuilt, renders>>
       ELSE /\ allWords' = JsonArray(NormalizeAll(cardFile.items))
            /\ alphaBuilt' = TRUE
            /\ visibleWords' = FilteredWords(NormalizeAll(cardFile.items), cardSearch,
                                             rarityChecked, onlyFavChecked, Range(favorites))
            /\ RenderList(FilteredWords(NormalizeAll(cardFile.items), cardSearch,
                                        rarityChecked, onlyFavChecked, Range(favorites)))
            /\ cardLast' = CardOp("loadData", <<>>, TRUE, FALSE, {})
            /\ cardEscaped' = FALSE
  /\ UNCHANGED <<cardFile, favorites, favStorage, cardSearch, rarityChecked,
                 onlyFavChecked>>

\* searchInput 'input'
CardTypeSearch ==
  /\ CardStep
  /\ \E v \in CardSearchValues :
       /\ cardSearch' = v
       /\ ApplyFilters(v, rarityChecked, onlyFavChecked, Range(favorites))
  /\ cardLast' = CardOp("search", <<>>, allWords.isArray, FALSE, {})
  /\ UNCHANGED <<cardPhase, cardFile, allWords, favorites, favStorage, rarityChecked,
                 onlyFavChecked, alphaBuilt>>

\* a .rarity checkbox 'change'
RarityChange ==
  /\ CardStep
  /\ \E r \in RarityValues :
       LET checked == IF r \in rarityChecked THEN rarityChecked \ {r}
                      ELSE rarityChecked \cup {r}
       IN /\ rarityChecked' = checked
          /\ ApplyFilters(cardSearch, checked, onlyFavChecked, Range(favorites))
  /\ cardLast' = CardOp("rarity", <<>>, allWords.isArray, FALSE, {})
  /\ UNCHANGED <<cardPhase, cardFile, allWords, favorites, favStorage, cardSearch,
                 onlyFavChecked, alphaBuilt>>

\* onlyFav 'change'
OnlyFavChange ==
  /\ CardStep
  /\ onlyFavChecked' = ~onlyFavChecked
  /\ ApplyFilters(cardSearch, rarityChecked, ~onlyFavChecked, Range(favorites))
  /\ cardLast' = CardOp("onlyFav", <<>>, allWords.isArray, FALSE, {})
  /\ UNCHANGED <<cardPhase, cardFile, allWords, favorites, favStorage, cardSearch,
                 rarityChecked, alphaBuilt>>

\* resetFilters 'click'
ResetFilters ==
  /\ CardStep
  /\ rarityChecked' = RarityValues \cap {"core", "common"}
  /\ onlyFavChecked' = FALSE
  /\ cardSearch' = <<>>
  /\ ApplyFilters(<<>>, RarityValues \cap {"core", "common"}, FALSE, Range(favorites))
  /\ cardLast' = CardOp("resetFilters", <<>>, allWords.isArray, FALSE, {})
  /\ UNCHANGED <<cardPhase, cardFile, allWords, favorites, favStorage, alphaBuilt>>

\* a button of #alphaIndex 'click': All, or a letter
AlphaClick ==
  /\ CardStep
  /\ alphaBuilt
  /\ \E l \in AlphaLetters \cup {<<>>} :
       /\ cardSearch' = l
       /\ ApplyFilters(l, rarityChecked, onlyFavChecked, Range(favorites))
  /\ cardLast' = CardOp("alpha", <<>>, allWords.isArray, FALSE, {})
  /\ UNCHANGED <<cardPhase, cardFile, allWords, favorites, favStorage, rarityChecked,
                 onlyFavChecked, alphaBuilt>>

\* .fav 'click' on the i-th card; localStorage.setItem may throw
FavClick ==
  /\ CardStep
  /\ \E i \in DOMAIN container, throws \in BOOLEAN :
       LET key == container[i].word
           favs == ToggleFavorite(favorites, key)
       IN /\ favorites' = favs
          /\ IF throws
             THEN /\ cardEscaped' = TRUE
                  /\ cardLast' = CardOp("fav", key, FALSE, key \notin Range(favorites),
                                        Range(favorites))
                  /\ UNCHANGED <<favStorage, visibleWords, container, renders>>
             ELSE /\ favStorage' = JSONStringify(favs)
                  /\ cardLast' = CardOp("fav", key, onlyFavChecked,
                                        key \notin Range(favorites), Range(favorites))
                  /\ IF onlyFavChecked
                     THEN ApplyFilters(cardSearch, rarityChecked, TRUE, Range(favs))
                     ELSE /\ cardEscaped' = FALSE
                          /\ UNCHANGED <<visibleWords, container, renders>>
  /\ UNCHANGED <<cardPhase, cardFile, allWords, cardSearch, rarityChecked,
                 onlyFavChecked, alphaBuilt>>

\* s without its t-th element: that renderList has returned
RemoveAt(s, t) == SelectSeqBy(s, DOMAIN s \ {t})

\* the icon fetch of a suspended renderWord settles (resp.text() included): the
\* card is appended, and that renderList goes on with the words after it
IconFetched ==
  /\ CardStep
  /\ \E t \in DOMAIN renders :
       LET r == renders[t]
           run == RenderRun(Append(container, r.words[r.at]), r.words, r.at + 1)
       IN /\ container' = run.container
          /\ renders' = IF run.waiting = 0 THEN RemoveAt(renders, t)
                        ELSE [renders EXCEPT ![t].at = run.waiting]
  /\ UNCHANGED <<cardPhase, cardFile, allWords, visibleWords, favorites, favStorage,
                 cardSearch, rarityChecked, onlyFavChecked, alphaBuilt, cardEscaped,
                 cardLast>>

(* --------------------------- specifications --------------------------- *)

\* the card page is not open
CardIdle ==
  /\ CardInit
  /\ cardFile = NotAnArray
  /\ rarityChecked = {}

\* the list page is not open
ListIdle ==
  /\ ListInit
  /\ serverFile = NotAnArray
  /\ storage = NullItem

\* the list page of script.js
Init == ListInit /\ CardIdle

Next ==
  \/ InitApp
  \/ Reload
  \/ TypeInput
  \/ TimerFire
  \/ FilterChange
  \/ ClearClick
  \/ LoadMore
  \/ ClickItem
  \/ OpenAddBlank
  \/ ClickEdit
  \/ CancelAdd
  \/ SubmitForm
  \/ ClickDelete
  \/ ResetClick

Spec == Init /\ [][Next]_vars

\* the search side of the list page, with a timeout that fires however many
\* handlers have run; the handlers left out (modal, add, edit, delete, reset)
\* write none of the timeout, searchInput.value and state.query
NextDebounce ==
  \/ InitApp
  \/ Reload
  \/ TypeInput
  \/ TimerExpires
  \/ FilterChange
  \/ ClearClick
  \/ LoadMore
  \/ ClickItem

\* setTimeout(fn, 220): a timeout that stays set is run by the event loop
SpecDebounce == Init /\ [][NextDebounce]_vars /\ WF_vars(TimerExpires)

\* the card page of part_000
InitCard == CardInit /\ ListIdle

NextCard ==
  \/ LoadData
  \/ CardTypeSearch
  \/ RarityChange
  \/ OnlyFavChange
  \/ ResetFilters
  \/ AlphaClick
  \/ FavClick
  \/ IconFetched

SpecCard == InitCard /\ [][NextCard]_vars

(* ======================================================================= *)
(*                               claims                                    *)
(* ======================================================================= *)

\* the last handler was init() and it got the served array
LoadedFromServer == last.op = "init" /\ last.ok

\* C1: after deleteEntry of an entry that came from the remote dataset, a reload
\* with the same remote dataset gives a state.words without an entry of that id
C1_DeletedRemoteStaysDeleted ==
  LoadedFromServer => \A i \in DOMAIN words : words[i].id \notin tombstones

\* remote with every entry whose id is in the local list replaced by the local
\* entry, followed by the local entries whose id is in no remote entry
Effective(remote, local) ==
  [i \in DOMAIN remote |->
     IF \E j \in DOMAIN local : local[j].id = remote[i].id
     THEN local[FindIndexById(local, remote[i].id)]
     ELSE remote[i]]
    \o SelectSeqBy(local,
         {j \in DOMAIN local : \A i \in DOMAIN remote : remote[i].id # local[j].id})

\* C2: the collection init() builds is the remote list with the entries of the
\* persisted local list put in place of the remote entries of the same id, the
\* others appended, so an edited remote entry is there once, as edited
C2_ReloadMergesById ==
  last.op = "init" =>
    /\ words = Effective(originalWords, loadLocalChanges(storage))
    /\ \A l \in Range(loadLocalChanges(storage)) :
         /\ Cardinality({i \in DOMAIN words : words[i].id = l.id}) = 1
         /\ l \in Range(words)

\* the in-memory change of the last add/edit or delete is in state.words
MutationApplied ==
  /\ last.op = "submit" => last.entry[1] \in Range(words)
  /\ (last.op = "delete" /\ last.ok) =>
       \A i \in DOMAIN words : words[i].id # last.entry[1].id

\* the favorites set reflects the last favorite toggle: the key changed sides
FavoriteApplied ==
  cardLast.op = "fav" => ((cardLast.key \in Range(favorites)) <=> cardLast.on)

\* C3: when the storage write throws during add/edit, delete or a favorite
\* toggle, no exception escapes the handler and the in-memory change is made
C3_StorageFailureDoesNotEscape ==
  /\ last.op \in {"submit", "delete"} => ~escaped /\ MutationApplied
  /\ cardLast.op = "fav" => ~cardEscaped /\ FavoriteApplied

\* the part-of-speech filters an entry passes: none, and its own pos
PosFiltersOf(e) == {"", e.pos} \ {Undefined}

\* e is among the results of a search for its word under a pos filter it passes
FoundByWord(e) ==
  \A pf \in PosFiltersOf(e) : e \in Range(SearchResults(words, e.word, pf))

\* C4: after addOrUpdateEntry stored e, a search for e.word contains e; after
\* deleteEntry(e.id) that search does not contain e
C4_UpsertThenSearchFindsEntry ==
  /\ last.op = "submit" => FoundByWord(last.entry[1])
  /\ (last.op = "delete" /\ last.ok) =>
       \A pf \in PosFiltersOf(last.entry[1]) :
         last.entry[1] \notin
           Range(SearchResults(words, last.entry[1].word, pf))

\* this step is a confirmed deleteEntry of the entry in the detail pane
DeleteStep == detail # <<>> /\ last'.op = "delete" /\ last'.ok /\ last'.entry = detail

\* C5: the entry shown after a click is the entry of the clicked list item, and
\* deleting it removes that entry only: every other entry stays in state.words
C5_DeleteRemovesOnlySelected ==
  /\ [](last.op = "select" /\ last.ok => detail = last.entry)
  /\ [][DeleteStep =>
          \A i \in DOMAIN words :
            words[i] # detail[1] => words[i] \in Range(words')]_vars

\* C6: a confirmed resetLocalChanges leaves state.words equal to
\* state.originalWords and the persisted local list empty, and a second reset
\* right after it changes neither
C6_ResetRestoresRemote ==
  /\ []((last.op = "reset" /\ last.ok) =>
          words = originalWords /\ loadLocalChanges(storage) = <<>>)
  /\ [][(last.op = "reset" /\ last.ok /\ last'.op = "reset" /\ last'.ok) =>
          /\ words' = words
          /\ originalWords' = originalWords
          /\ loadLocalChanges(storage') = loadLocalChanges(storage)]_vars

\* a reset ran after a local entry was added and selected, and undid the addition
C6_Witness ==
  /\ last.op = "reset" /\ last.ok
  /\ detail # <<>> /\ detail[1].id \in LocalIds
  /\ originalWords # <<>>
  /\ words = originalWords

\* C7: once init() has run, no handler of the page changes state.originalWords
C7_OriginalWordsUnchanged ==
  [][(phase = "ready" /\ phase' = "ready") => originalWords' = originalWords]_vars

\* an add or edit changed state.words and left state.originalWords as loaded
C7_Witness ==
  /\ phase = "ready"
  /\ last.op = "submit"
  /\ originalWords # <<>>
  /\ originalWords = serverFile.items
  /\ words # originalWords

\* w passes the favorites and text checks of applyFilters
PassesFavAndText(w) ==
  CardKeeps(w, ToLowerCase(Trim(cardSearch)), {RarityOf(w)}, onlyFavChecked,
            Range(favorites))

\* C8: with no rarity checkbox checked, every entry that passes the favorites
\* and text checks is in visibleWords
C8_EmptyRaritySetPermitsAll ==
  (cardLast.applied /\ rarityChecked = {}) =>
    \A w \in Range(allWords.items) : PassesFavAndText(w) => w \in Range(visibleWords)

LowerTag(t) == IF t = "Core" THEN "core" ELSE t

\* the tags of w, case-normalized
TagsOf(w) == {LowerTag(t) : t \in Range(w.tags)}

\* C9: with a non-empty accepted set an entry is kept iff its tags share a member
\* with the set; Ama [core], Biru [rare] with {core} accepted gives [Ama]
C9_TagIntersectionFilter ==
  (cardLast.applied /\ rarityChecked # {}) =>
    /\ \A w \in Range(allWords.items) :
         w \in Range(visibleWords) <=>
           (PassesFavAndText(w) /\ TagsOf(w) \cap rarityChecked # {})
    /\ (allWords.items = NormalizeAll(ScenarioWords) /\ rarityChecked = {"core"}
          /\ cardSearch = <<>> /\ ~onlyFavChecked) =>
         [i \in DOMAIN visibleWords |-> visibleWords[i].word] = <<Ama.word>>

\* C10: while a part-of-speech filter is set, every entry of state.results has
\* exactly that pos
C10_PosFilterExact ==
  TruthyAtom(filterPos) => \A i \in DOMAIN results : results[i].pos = filterPos

\* the query text as the claim has it matched: trimmed, then lower-cased
TrimmedQuery(q) == ToLowerCase(Trim(q))

\* the text clause over the searchable fields of e, for the trimmed query
TextClause(e, q) ==
  \/ TrimmedQuery(q) = <<>>
  \/ \E f \in EntryFields(e) : Includes(ToLowerCase(f), TrimmedQuery(q))

\* C11: once a typed search has run with no part-of-speech filter set, the
\* results are the entries whose text fields contain the trimmed, lower-cased
\* query; a query that is empty after trimming (whitespace only) keeps them all.
C11_QueryTrimmedBeforeMatching ==
  (phase = "ready" /\ last.op = "search" /\ filterPos = "")
    => results = SelectSeqBy(words, {i \in DOMAIN words : TextClause(words[i], query)})

\* C12: after init or a typed search the results stand in case-insensitive
\* order of their words
C12_ResultsOrderedByWord ==
  (phase = "ready" /\ last.op \in {"init", "search"}) =>
    \A i, j \in DOMAIN results :
      i < j => PrimaryCompare(results[i].word, results[j].word) <= 0

\* first and one-past-last index of page p in a list of total entries
PageLo(p) == p * RESULTS_PAGE_SIZE
PageHi(p, total) == Min(total, (p + 1) * RESULTS_PAGE_SIZE)

\* C13: the list shows exactly results[page*size .. min(total, (page+1)*size)),
\* load-more is displayed iff (page+1)*size < total, and a page index at or
\* beyond the end renders no entry and hides load-more
C13_PageWindow ==
  phase = "ready" =>
    /\ Len(listItems) =
         IF PageHi(page, Len(results)) > PageLo(page)
         THEN PageHi(page, Len(results)) - PageLo(page) ELSE 0
    /\ \A i \in DOMAIN listItems : listItems[i] = results[PageLo(page) + i]
    /\ loadMoreDisplay <=> (page + 1) * RESULTS_PAGE_SIZE < Len(results)
    /\ \A p \in 0..MaxPage :
         PageLo(p) >= Len(results) =>
           PageSlice(results, p) = <<>> /\ ~LoadMoreShown(results, p)

\* the last page is on show after "load more"
C13_Witness ==
  /\ phase = "ready"
  /\ page >= 1
  /\ listItems # <<>>
  /\ ~loadMoreDisplay
  /\ PageHi(page, Len(results)) = Len(results)

\* the number of entries of the card collection that applyFilters' predicate
\* keeps under the given controls
CardCount(searchValue, allowedRarity) ==
  LET q == ToLowerCase(Trim(searchValue))
  IN Cardinality({i \in DOMAIN allWords.items :
       CardKeeps(allWords.items[i], q, allowedRarity, onlyFavChecked, Range(favorites))})

\* collections of the list page the filter is tried on
ListCollections ==
  {f.items : f \in ServerFiles}
    \cup {f.items \o <<NewEntry(<<"w", 1>>, w, "", d)>> :
            f \in ServerFiles, w \in FormWords, d \in FormDefinitions}

\* the number of entries of ws that matchesEntry keeps
ListCount(ws, q, pf) == Cardinality({i \in DOMAIN ws : matchesEntry(ws[i], q, pf)})

\* C14: with the rest held fixed, a smaller accepted rarity set or a set
\* part-of-speech filter never gives more matches, and the empty query text never
\* gives fewer, in the card page and in the list page
C14_FilterMonotone ==
  /\ allWords.isArray =>
       /\ \A narrower \in SUBSET rarityChecked :
            CardCount(cardSearch, narrower) <= CardCount(cardSearch, rarityChecked)
       /\ CardCount(cardSearch, rarityChecked) <= CardCount(<<>>, rarityChecked)
  /\ \* the list half reads no variable: it is evaluated in the initial states
     cardSteps = 0 =>
       \A ws \in ListCollections, q \in QueryValues, pf \in FilterValues :
         /\ ListCount(ws, q, pf) <= ListCount(ws, q, "")
         /\ ListCount(ws, q, pf) <= ListCount(ws, <<>>, pf)

\* the shown cards are strictly fewer than with every rarity accepted, and
\* strictly fewer than with the search box emptied
C14_Witness ==
  /\ cardLast.applied
  /\ visibleWords # <<>>
  /\ Len(visibleWords) = CardCount(cardSearch, rarityChecked)
  /\ CardCount(cardSearch, rarityChecked) < CardCount(cardSearch, RarityValues)
  /\ CardCount(cardSearch, rarityChecked) < CardCount(<<>>, rarityChecked)

\* the favorite toggle of FavClick has just run on the key cardLast'.key (a
\* settled icon fetch leaves cardLast as it is)
FavStep == cardLast'.op = "fav" /\ cardLast' # cardLast

\* membership of k flipped, every other key as it was
Flipped(before, after, k) ==
  /\ (k \in after) <=> (k \notin before)
  /\ after \ {k} = before \ {k}

\* C15: a favorite toggle on k flips the membership of k and of nothing else and
\* leaves allWords alone; when the storage write succeeds the stored 'favWords'
\* list has exactly the members of the set; a second toggle of the same k right
\* after the first gives back the set the first one started from
C15_FavoriteToggle ==
  [][FavStep =>
       /\ Flipped(Range(favorites), Range(favorites'), cardLast'.key)
       /\ allWords' = allWords
       /\ ~cardEscaped' =>
            /\ favStorage'.kind = "array"
            /\ Range(favStorage'.items) = Range(favorites')
            /\ Len(favStorage'.items) = Cardinality(Range(favorites'))
       /\ (cardLast.op = "fav" /\ cardLast.key = cardLast'.key) =>
            Range(favorites') = cardLast.before]_vars

\* the key toggled on and then off again, the write having succeeded
C15_Witness ==
  /\ cardLast.op = "fav"
  /\ ~cardEscaped
  /\ cardLast.before = {cardLast.key}
  /\ favorites = <<>>
  /\ favStorage = JSONStringify(<<>>)

\* the handlers of the card page that end in applyFilters()
FilterOps == {"search", "rarity", "onlyFav", "resetFilters", "alpha"}

\* C16: with a top-level payload that is no array, the collection is the empty
\* sequence once loadData has run, and every later applyFilters ends normally
C16_NonArrayPayloadIsEmpty ==
  (cardPhase = "ready" /\ ~cardFile.isArray) =>
    /\ allWords = JsonArray(<<>>)
    /\ cardLast.op \in FilterOps => ~cardEscaped

\* SubmitForm has just run for a blank form (an add, no edit id on the form)
AddStep ==
  /\ last'.op = "submit"
  /\ steps' = steps + 1
  /\ ~TruthyId(editId)

\* C17: when the fetch fails or its payload is no array, init still completes:
\* originalWords is empty, state.words is the stored local list and the page is
\* ready for its handlers; an add made later puts its entry into state.words
C17_LoadFailureLeavesLocalList ==
  /\ [](last.op = "init" /\ ~last.ok =>
          /\ phase = "ready"
          /\ originalWords = <<>>
          /\ words = loadLocalChanges(storage)
          /\ results = SearchResults(words, query, filterPos))
  /\ [][(AddStep /\ originalWords = <<>>) =>
          /\ Len(words') = Len(words) + 1
          /\ words'[Len(words')] = last'.entry[1]
          /\ originalWords' = <<>>
          /\ ~escaped' => last'.entry[1] \in Range(loadLocalChanges(storage'))]_vars

\* after a failed load the stored list is not empty and one more entry is added
C17_Witness ==
  /\ phase = "ready"
  /\ last.op = "submit"
  /\ ~escaped
  /\ originalWords = <<>>
  /\ Len(words) = 2
  /\ words = loadLocalChanges(storage)

\* the last handler ran applySearch to its end: init, a fired search input, a
\* filter change or clear, an add or edit, a confirmed delete or reset
SearchCompleted ==
  /\ phase = "ready"
  /\ ~escaped
  /\ \/ last.op \in {"init", "search", "filter", "submit"}
     \/ last.op \in {"delete", "reset"} /\ last.ok

\* C18: while a search text or a part-of-speech filter is active, the number in
\* the result count is the number of entries that pass the filters, zero included
C18_CountIsNumberOfMatches ==
  (SearchCompleted /\ (TruthyStr(query) \/ TruthyAtom(filterPos))) =>
    /\ resultCount.text = "results"
    /\ resultCount.n = Len(SearchResults(words, query, filterPos))

C20_ContainerFollowsLatestFilter ==
  (cardPhase = "ready" /\ renders = <<>>) => container = visibleWords

\* the entries of the list s that carry the locally created id
LocalEntries(s, id) == {s[i] : i \in {j \in DOMAIN s : s[j].id = id}}

\* state.words ws and the stored list agree on every locally created entry
LocalAgree(ws, item) ==
  \A id \in LocalIds : LocalEntries(ws, id) = LocalEntries(loadLocalChanges(item), id)

\* C21: a handler that ends normally keeps the agreement between state.words and
\* the stored 'nl_words_local' list on locally created entries: each is in one
\* iff it is in the other, with the same field values
C21_LocalEntriesAgree ==
  [][(phase = "ready" /\ phase' = "ready" /\ ~escaped' /\ LocalAgree(words, storage))
       => LocalAgree(words', storage')]_vars

====
